---- MODULE Spec2Model ----
(***************************************************************************)
(* Model of the preview search panel (PreviewSearchPanel.tsx) and of the   *)
(* path utilities (utils/path) of studio-ui.                               *)
(*                                                                         *)
(* Spec      : the search panel as a state machine.  One action per event  *)
(*             handler or asynchronous callback of the component.          *)
(* PathSpec  : the pure path functions, applied to inputs drawn from       *)
(*             bounded sets.                                               *)
(***************************************************************************)
EXTENDS Integers, Sequences, FiniteSets, TLC

VARIABLES
  mounted,                \* FALSE once unMount$ has emitted
  contentTypes,           \* useContentTypeList(...): Null while loading
  keyword,                \* useState('')
  pageNumber,             \* useState(0)
  searchResults,          \* useState<SearchResult>(null)
  contentInstanceLookup,  \* useState({})
  error,                  \* useState<ApiResponse>(null)
  queries,                \* the search cycles whose subscription is alive, by issue number
  issued,                 \* number of calls of onSearch so far
  debounce,               \* value held by the debounced input, with the ms it has been quiet
  burst,                  \* history: keywords entered since the debounced input last emitted (counted up to MaxEdits)
  owed,                   \* history: times the input has stayed quiet for DebounceTime, less
                          \*          the queries issued for keywords
  lastArrival,            \* history: the cycle that reached the subscriber last
  lastIssued,             \* history: the last call of onSearch
  failedAt,               \* history: the value of issued when a query first failed (0: none has)
  bus,                    \* the last message published on hostToGuest$ (Null: none yet)
  drag,                   \* history: the last call of a drag handler, and how it ended
  call,                   \* PathSpec: the arguments of the path function
  ret                     \* PathSpec: the value it returned

panelVars == <<mounted, contentTypes, keyword, pageNumber, searchResults,
               contentInstanceLookup, error, queries, issued, debounce, burst,
               owed, lastArrival, lastIssued, failedAt>>
dragVars == <<bus, drag>>
pathVars == <<call, ret>>
vars == <<panelVars, dragVars, pathVars>>

-----------------------------------------------------------------------------
(* Bounds of the model *)
MaxQueries == 2
MaxEdits == 2
MaxDepth == 3
MaxTokens == 3

(* Program constants *)
DebounceTime == 400
Limit == 10

\* Time advances in steps of half the debounce window.
Quantum == DebounceTime \div 2

-----------------------------------------------------------------------------
(* Values *)
Null == [null |-> TRUE]

Keywords == {"", "a"}

Pages == {0, 1}

ContentTypeLists == {<<"/component/feature">>}

AssetItem == [path |-> "/static-assets/logo.png", type |-> "Image"]
ComponentA == [path |-> "/site/components/a.xml", type |-> "Component"]
ComponentB == [path |-> "/site/components/b.xml", type |-> "Component"]

\* The responses the search service may give.
SearchResultValues ==
  { [items |-> <<AssetItem>>, total |-> 1],
    [items |-> <<ComponentA, AssetItem, ComponentB>>, total |-> 3] }

\* The response bodies of a failed request.
ErrorResponses == { [code |-> 500] }

\* The instance the content service returns for a path.
ContentInstanceOf(path) ==
  [craftercms |-> [path |-> path, contentTypeId |-> "/component/feature"]]

-----------------------------------------------------------------------------
(* onSearch *)

initialSearchParameters == [keywords |-> "", offset |-> 0, limit |-> Limit, orOperator |-> TRUE]

\* Mutant of ComponentRequests: a request for every item, whatever its type.
EveryItemRequests(result) ==
  [i \in 1..Len(result.items) |-> result.items[i].path]

\* The requests the switchMap callback builds from a search result: one
\* getContentInstance per item of type 'Component', in item order.
ComponentRequests(result) ==
  LET IsComponent(item) == item.type = "Component"
      comps == SelectSeq(result.items, IsComponent)
  IN  [i \in 1..Len(comps) |-> comps[i].path]

\* createLookupTable(list, 'craftercms.path')
createLookupTable(instances) ==
  [p \in {instances[i].craftercms.path : i \in 1..Len(instances)} |->
     CHOOSE inst \in {instances[i] : i \in 1..Len(instances)} : inst.craftercms.path = p]

\* search(site, { ...initialSearchParameters, keywords, ...options, filters }):
\* the query onSearch(keywords, options) sends.  types is the content-type filter.
SearchQuery(keywords, offset, limit, types) ==
  [ keywords |-> keywords,
    offset   |-> offset,
    limit    |-> limit,
    orOperator |-> initialSearchParameters.orOperator,
    types    |-> types ]

\* The search cycle onSearch subscribes to.
NewCycle == [phase |-> "search", result |-> Null, requests |-> <<>>, got |-> {}]

\* f with the entry of key k removed / with the entry k |-> v added
Without(f, k) == [x \in DOMAIN f \ {k} |-> f[x]]
With(f, k, v) == [x \in DOMAIN f \cup {k} |-> IF x = k THEN v ELSE f[x]]

\* Mutant of onSearch: a new query unsubscribes the cycles still in flight.
onSearchSwitching(keywords, offset, limit, types, src) ==
  /\ issued < MaxQueries
  /\ issued' = issued + 1
  /\ queries' = (issued + 1) :> NewCycle
  /\ owed' = IF src = "keyword" THEN owed - 1 ELSE owed
  /\ lastIssued' = [ id |-> issued + 1, src |-> src,
                     query |-> SearchQuery(keywords, offset, limit, types),
                     bar |-> keyword,
                     typed |-> IF src = "keyword" THEN burst ELSE 0,
                     quiet |-> IF src = "keyword" /\ debounce # Null THEN debounce.quiet ELSE 0 ]

\* onSearch(keywords, options).  History, in lastIssued: the query sent; src, the
\* handler that called; bar, the keyword in the search bar; typed, the keywords
\* entered since the debounced input last emitted; quiet, the ms it had been quiet.
onSearch(keywords, offset, limit, types, src) ==
  /\ issued < MaxQueries
  /\ issued' = issued + 1
  /\ queries' = With(queries, issued + 1, NewCycle)
  /\ owed' = IF src = "keyword" THEN owed - 1 ELSE owed
  /\ lastIssued' = [ id |-> issued + 1, src |-> src,
                     query |-> SearchQuery(keywords, offset, limit, types),
                     bar |-> keyword,
                     typed |-> IF src = "keyword" THEN burst ELSE 0,
                     quiet |-> IF src = "keyword" /\ debounce # Null THEN debounce.quiet ELSE 0 ]

Arrival(c, ok, cycle) ==
  [id |-> c, ok |-> ok, phase |-> cycle.phase, result |-> cycle.result,
   requests |-> Len(cycle.requests), got |-> Cardinality(cycle.got)]

\* Mutant of SubscriberNext: setContentInstanceLookup is not called.
SubscriberNextResultOnly(result, requests) ==
  /\ searchResults' = result
  /\ UNCHANGED <<contentInstanceLookup, error, failedAt>>

\* Subscriber next: (response) => { setSearchResults; setContentInstanceLookup }
SubscriberNext(result, requests) ==
  /\ searchResults' = result
  /\ contentInstanceLookup' =
       IF Len(requests) > 0
       THEN createLookupTable([i \in 1..Len(requests) |-> ContentInstanceOf(requests[i])])
       ELSE contentInstanceLookup
  /\ UNCHANGED <<error, failedAt>>

\* Subscriber error: ({ response }) => setError(response)
SubscriberError(response) ==
  /\ error' = response
  /\ failedAt' = IF failedAt = 0 THEN issued ELSE failedAt
  /\ UNCHANGED <<searchResults, contentInstanceLookup>>

\* forkJoin(requests) emits once every request has emitted and completed.
forkJoinDone(cycle) == cycle.got = DOMAIN cycle.requests

\* takeUntil(unMount$) placed before switchMap: when unMount$ emits, the cycles
\* still waiting for the search response are unsubscribed; the others are not.
takeUntilUnMount(cycles) ==
  [c \in {x \in DOMAIN cycles : cycles[x].phase # "search"} |-> cycles[c]]

-----------------------------------------------------------------------------
(* Actions of the panel *)

\* The debounced input has been quiet for the whole window and is about to emit.
DebounceDue == debounce # Null /\ debounce.quiet = DebounceTime

\* useEffect: a new content-type list (and its lookup table) runs onSearch().
ContentTypesChanged(list) ==
  /\ mounted
  /\ contentTypes # [list |-> list]
  /\ contentTypes' = [list |-> list]
  /\ onSearch(initialSearchParameters.keywords, initialSearchParameters.offset,
              initialSearchParameters.limit, contentTypes', "effect")
  /\ UNCHANGED <<mounted, keyword, pageNumber, searchResults, contentInstanceLookup, error,
                 debounce, burst, lastArrival, failedAt, dragVars, pathVars>>

\* onSearch$.next(value): the debounced input takes the value and restarts its timer.
DebouncedNext(value) ==
  debounce' = [value |-> value, quiet |-> 0]

\* Mutant of handleSearchKeyword: onSearch is called for every keyword entered.
handleSearchKeywordUndebounced(kw) ==
  /\ mounted
  /\ kw # keyword
  /\ keyword' = kw
  /\ onSearch(kw, initialSearchParameters.offset, initialSearchParameters.limit,
              contentTypes, "keyword")
  /\ UNCHANGED <<mounted, contentTypes, pageNumber, searchResults, contentInstanceLookup,
                 error, debounce, burst, lastArrival, failedAt, dragVars, pathVars>>

handleSearchKeyword(kw) ==
  /\ mounted
  /\ kw # keyword
  /\ ~DebounceDue
  /\ keyword' = kw
  /\ DebouncedNext(kw)
  /\ burst' = IF burst < MaxEdits THEN burst + 1 ELSE burst
  /\ UNCHANGED <<mounted, contentTypes, pageNumber, searchResults, contentInstanceLookup,
                 error, queries, issued, lastArrival, lastIssued, failedAt, owed, dragVars, pathVars>>

\* The debounced input emits the value it holds once it has been quiet for DebounceTime.
DebounceFire ==
  /\ DebounceDue
  /\ onSearch(debounce.value, initialSearchParameters.offset, initialSearchParameters.limit,
              contentTypes, "keyword")
  /\ debounce' = Null
  /\ burst' = 0
  /\ UNCHANGED <<mounted, contentTypes, keyword, pageNumber, searchResults,
                 contentInstanceLookup, error, lastArrival, failedAt, dragVars, pathVars>>

\* Time passes while a keyword waits in the debounced input; a due value is
\* emitted before time moves on.
Tick ==
  /\ debounce # Null
  /\ debounce.quiet < DebounceTime
  /\ debounce' = [debounce EXCEPT !.quiet = @ + Quantum]
  /\ owed' = IF debounce'.quiet = DebounceTime THEN owed + 1 ELSE owed
  /\ UNCHANGED <<mounted, contentTypes, keyword, pageNumber, searchResults,
                 contentInstanceLookup, error, queries, issued, burst, lastArrival,
                 lastIssued, failedAt, dragVars, pathVars>>

\* Mutant of onPageChanged: the page number is passed as the offset.
onPageChangedPageAsOffset(page) ==
  /\ mounted
  /\ searchResults # Null
  /\ page # pageNumber
  /\ pageNumber' = page
  /\ onSearch(keyword, page, initialSearchParameters.limit, contentTypes, "page")
  /\ UNCHANGED <<mounted, contentTypes, keyword, searchResults, contentInstanceLookup,
                 error, debounce, burst, lastArrival, failedAt, dragVars, pathVars>>

onPageChanged(page) ==
  /\ mounted
  /\ searchResults # Null
  /\ page # pageNumber
  /\ pageNumber' = page
  /\ onSearch(keyword, page * initialSearchParameters.limit, initialSearchParameters.limit,
              contentTypes, "page")
  /\ UNCHANGED <<mounted, contentTypes, keyword, searchResults, contentInstanceLookup,
                 error, debounce, burst, lastArrival, failedAt, dragVars, pathVars>>

\* The search request of cycle c is answered: the switchMap callback runs.  With
\* no component item, of({ result, contentInstances: null }) reaches the subscriber
\* at once.
SearchResponse(c, result) ==
  /\ queries[c].phase = "search"
  /\ LET requests == ComponentRequests(result)
         answered == [queries[c] EXCEPT !.phase = "fetch", !.result = result,
                                        !.requests = requests]
     IN  IF Len(requests) = 0
         THEN /\ queries' = Without(queries, c)
              /\ SubscriberNext(result, requests)
              /\ lastArrival' = Arrival(c, TRUE, [answered EXCEPT !.phase = "search"])
         ELSE /\ queries' = [queries EXCEPT ![c] = answered]
              /\ UNCHANGED <<searchResults, contentInstanceLookup, error, lastArrival, failedAt>>
  /\ UNCHANGED <<mounted, contentTypes, keyword, pageNumber, issued, debounce, burst,
                 lastIssued, owed, dragVars, pathVars>>

SearchFail(c, response) ==
  /\ queries[c].phase = "search"
  /\ queries' = Without(queries, c)
  /\ SubscriberError(response)
  /\ lastArrival' = Arrival(c, FALSE, queries[c])
  /\ UNCHANGED <<mounted, contentTypes, keyword, pageNumber, issued, debounce, burst,
                 lastIssued, owed, dragVars, pathVars>>

\* getContentInstance request i of cycle c resolves; forkJoin emits on the last one.
FetchResolve(c, i) ==
  /\ queries[c].phase = "fetch"
  /\ i \in DOMAIN queries[c].requests
  /\ i \notin queries[c].got
  /\ LET resolved == [queries[c] EXCEPT !.got = @ \cup {i}]
     IN  IF forkJoinDone(resolved)
         THEN /\ queries' = Without(queries, c)
              /\ SubscriberNext(queries[c].result, queries[c].requests)
              /\ lastArrival' = Arrival(c, TRUE, resolved)
         ELSE /\ queries' = [queries EXCEPT ![c] = resolved]
              /\ UNCHANGED <<searchResults, contentInstanceLookup, error, lastArrival, failedAt>>
  /\ UNCHANGED <<mounted, contentTypes, keyword, pageNumber, issued, debounce, burst,
                 lastIssued, owed, dragVars, pathVars>>

\* Mutant of FetchFail: a failed request counts as answered, and the cycle goes on.
FetchFailTolerated(c, i, response) ==
  /\ queries[c].phase = "fetch"
  /\ i \in DOMAIN queries[c].requests
  /\ i \notin queries[c].got
  /\ LET resolved == [queries[c] EXCEPT !.got = @ \cup {i}]
     IN  IF forkJoinDone(resolved)
         THEN /\ queries' = Without(queries, c)
              /\ SubscriberNext(queries[c].result, queries[c].requests)
              /\ lastArrival' = Arrival(c, FALSE, queries[c])
         ELSE /\ queries' = [queries EXCEPT ![c] = resolved]
              /\ UNCHANGED <<searchResults, contentInstanceLookup, error, lastArrival, failedAt>>
  /\ UNCHANGED <<mounted, contentTypes, keyword, pageNumber, issued, debounce, burst,
                 lastIssued, owed, dragVars, pathVars>>

\* getContentInstance request i of cycle c fails; forkJoin errors at once.
FetchFail(c, i, response) ==
  /\ queries[c].phase = "fetch"
  /\ i \in DOMAIN queries[c].requests
  /\ i \notin queries[c].got
  /\ queries' = Without(queries, c)
  /\ SubscriberError(response)
  /\ lastArrival' = Arrival(c, FALSE, queries[c])
  /\ UNCHANGED <<mounted, contentTypes, keyword, pageNumber, issued, debounce, burst,
                 lastIssued, owed, dragVars, pathVars>>

\* useMount cleanup: unMount$.next(); unMount$.complete().  takeUntil(unMount$) sits
\* before switchMap in the pipe, so it ends the search request only: an inner
\* forkJoin that switchMap has already subscribed to stays subscribed.
Unmount ==
  /\ mounted
  /\ mounted' = FALSE
  /\ queries' = takeUntilUnMount(queries)
  /\ debounce' = Null
  /\ burst' = 0
  /\ UNCHANGED <<contentTypes, keyword, pageNumber, searchResults, contentInstanceLookup,
                 error, issued, lastArrival, lastIssued, failedAt, owed, dragVars, pathVars>>

-----------------------------------------------------------------------------
(* utils/path.  A string is the sequence of its characters. *)

IndexXml == <<"/", "i", "n", "d", "e", "x", ".", "x", "m", "l">>
SiteWebsite == <<"/", "s", "i", "t", "e", "/", "w", "e", "b", "s", "i", "t", "e">>

\* The value JavaScript reads from a missing key.
Undefined == [undefined |-> TRUE]

\* pat occurs in s at position i (1-based)
StartsAt(s, i, pat) ==
  /\ i + Len(pat) - 1 <= Len(s)
  /\ \A k \in 1..Len(pat) : s[i + k - 1] = pat[k]

\* String.prototype.indexOf, 1-based: 0 when pat does not occur in s
IndexOf(s, pat) ==
  LET hits == {i \in 1..(Len(s) + 1) : StartsAt(s, i, pat)}
  IN  IF hits = {} THEN 0 ELSE CHOOSE i \in hits : \A j \in hits : i <= j

\* String.prototype.replace(pattern: string, replacement): the first occurrence only
ReplaceFirst(s, pat, by) ==
  LET i == IndexOf(s, pat)
  IN  IF i = 0 THEN s
      ELSE SubSeq(s, 1, i - 1) \o by \o SubSeq(s, i + Len(pat), Len(s))

\* String.prototype.split on a one-character separator
RECURSIVE Split(_, _)
Split(s, sep) ==
  LET i == IndexOf(s, <<sep>>)
  IN  IF i = 0 THEN <<s>>
      ELSE <<SubSeq(s, 1, i - 1)>> \o Split(SubSeq(s, i + 1, Len(s)), sep)

withoutIndex(path) == ReplaceFirst(path, IndexXml, <<>>)

\* Mutant of withIndex: '/index.xml' is appended to the path as given.
withIndexAppended(path) == path \o IndexXml

withIndex(path) == withoutIndex(path) \o IndexXml

\* One alternative of a regular expression: the characters to match, whether they
\* are regular-expression source (where "." matches any character) and whether
\* the match must end the string ($).
Alternative(chars, source, atEnd) == [chars |-> chars, source |-> source, atEnd |-> atEnd]

MatchesAt(s, i, alt) ==
  /\ i + Len(alt.chars) - 1 <= Len(s)
  /\ \A k \in 1..Len(alt.chars) :
       \/ s[i + k - 1] = alt.chars[k]
       \/ alt.source /\ alt.chars[k] = "."
  /\ alt.atEnd => i + Len(alt.chars) - 1 = Len(s)

\* String.prototype.replace(/alt1|alt2|.../g, ''): scanning from position i, at
\* each position the first alternative that matches is removed.
RECURSIVE RemoveAll(_, _, _)
RemoveAll(s, i, alts) ==
  IF i > Len(s) THEN <<>>
  ELSE LET hits == {a \in 1..Len(alts) : MatchesAt(s, i, alts[a])}
           first == CHOOSE a \in hits : \A b \in hits : a <= b
       IN  IF hits = {} \/ Len(alts[first].chars) = 0
           THEN <<s[i]>> \o RemoveAll(s, i + 1, alts)
           ELSE RemoveAll(s, i + Len(alts[first].chars), alts)

\* items[key]
Get(items, key) == IF key \in DOMAIN items THEN items[key] ELSE Undefined

\* a ?? b
Coalesce(a, b) == IF a = Undefined THEN b ELSE a

\* Mutant of itemsFromPathRegExp: the alternative /$ is left out.
itemsFromPathRegExpNoSlash(rootWithIndex, rootWithoutIndex) ==
  << Alternative(rootWithIndex, TRUE, FALSE),
     Alternative(rootWithoutIndex, TRUE, FALSE),
     Alternative(IndexXml, FALSE, FALSE) >>

\* new RegExp(`${rootWithIndex}|${rootWithoutIndex}|\\/index\\.xml|/$`, 'g')
itemsFromPathRegExp(rootWithIndex, rootWithoutIndex) ==
  << Alternative(rootWithIndex, TRUE, FALSE),
     Alternative(rootWithoutIndex, TRUE, FALSE),
     Alternative(IndexXml, FALSE, FALSE),
     Alternative(<<"/">>, FALSE, TRUE) >>

\* The root item: items[rootWithIndex] ?? items[root]
itemsFromPathRootItem(root, items) ==
  Coalesce(Get(items, withIndex(root)), Get(items, root))

\* accum after the first k folders: rootWithoutIndex + '/' + folder, k times
RECURSIVE Accum(_, _, _)
Accum(rootWithoutIndex, folders, k) ==
  IF k = 0 THEN rootWithoutIndex
  ELSE Accum(rootWithoutIndex, folders, k - 1) \o <<"/">> \o folders[k]

itemsFromPath(path, root, items) ==
  LET rootWithIndex == withIndex(root)
      rootWithoutIndex == withoutIndex(root)
      rootItem == itemsFromPathRootItem(root, items)
      regExp == itemsFromPathRegExp(rootWithIndex, rootWithoutIndex)
      pathWithoutRoot == RemoveAll(path, 1, regExp)
      folders == Tail(Split(pathWithoutRoot, "/"))
  IN  IF path = rootWithIndex \/ path = root
      THEN <<rootItem>>
      ELSE <<rootItem>> \o
           [k \in 1..Len(folders) |->
              LET accum == Accum(rootWithoutIndex, folders, k)
              IN  Coalesce(Get(items, accum), Get(items, withIndex(accum)))]

\* Array.prototype.join
RECURSIVE Join(_, _)
Join(parts, sep) ==
  IF Len(parts) = 0 THEN <<>>
  ELSE IF Len(parts) = 1 THEN parts[1]
  ELSE parts[1] \o sep \o Join(Tail(parts), sep)

\* Array.prototype.pop: what is left of the array
Pop(array) == SubSeq(array, 1, Len(array) - 1)

\* Array.prototype.indexOf: 0-based, -1 when x is not an element
ArrayIndexOf(array, x) ==
  LET hits == {i \in 1..Len(array) : array[i] = x}
  IN  IF hits = {} THEN -1 ELSE (CHOOSE i \in hits : \A j \in hits : i <= j) - 1

getParentPath(path) ==
  Join(Pop(Split(withoutIndex(path), "/")), <<"/">>)

\* splitPath.map((value, i) => `${rootPath}/${splitPath.slice(1, i + 1).join('/')}`)
ParentLevels(splitPath, rootPath) ==
  [k \in 1..Len(splitPath) |-> rootPath \o <<"/">> \o Join(SubSeq(splitPath, 2, k), <<"/">>)]

\* Array.prototype.splice(start): the elements removed, those from index start on
Splice(array, start) == SubSeq(array, start + 1, Len(array))

getParentsFromPath(path, rootPath) ==
  LET splitPath == Pop(Split(ReplaceFirst(withoutIndex(path), rootPath, <<>>), "/"))
  IN  <<rootPath>> \o Splice(ParentLevels(splitPath, rootPath), 2)

DotHtml == <<".", "h", "t", "m", "l">>
DotXml == <<".", "x", "m", "l">>

\* if (pagePath.indexOf(ch) > 0) pagePath = pagePath.split(ch)[0]
StripFrom(pagePath, ch) ==
  IF IndexOf(pagePath, <<ch>>) > 1
  THEN SubSeq(pagePath, 1, IndexOf(pagePath, <<ch>>) - 1)
  ELSE pagePath

getPathFromPreviewURL(previewURL) ==
  LET noQuery == StripFrom(previewURL, "?")
      noHash == StripFrom(noQuery, "#")
      noParams == StripFrom(noHash, ";")
      renamed == ReplaceFirst(noParams, DotHtml, DotXml)
      slashed == IF Len(renamed) = 0 \/ renamed[Len(renamed)] # "/"
                 THEN renamed \o <<"/">> ELSE renamed
      pagePath == IF IndexOf(renamed, DotXml) = 0 THEN slashed \o Tail(IndexXml) ELSE renamed
  IN  SiteWebsite \o pagePath

\* Mutant of TrimSlashes: only the leading '/' is removed.
TrimLeadingSlash(path) ==
  IF Len(path) > 0 /\ path[1] = "/" THEN Tail(path) ELSE path

\* path.replace(/^\/|\/$/g, '')
TrimSlashes(path) ==
  LET head == IF Len(path) > 0 /\ path[1] = "/" THEN Tail(path) ELSE path
  IN  IF Len(head) > 0 /\ head[Len(head)] = "/" THEN Pop(head) ELSE head

\* do { paths.push('/' + array.join('/')); array.pop(); } while (array.length)
RECURSIVE IndividualPathsLoop(_)
IndividualPathsLoop(array) ==
  << <<"/">> \o Join(array, <<"/">>) >> \o
    (IF Len(Pop(array)) > 0 THEN IndividualPathsLoop(Pop(array)) ELSE <<>>)

\* An optional string argument: Undefined, or the string given.
Str(chars) == [str |-> chars]
Truthy(arg) == arg # Undefined /\ arg.str # <<>>

getIndividualPaths(path, rootPath) ==
  LET paths == IndividualPathsLoop(Split(TrimSlashes(path), "/"))
  IN  IF Truthy(rootPath)
      THEN IF ArrayIndexOf(paths, withIndex(rootPath.str)) >= 0
           THEN SubSeq(paths, 1, ArrayIndexOf(paths, withIndex(rootPath.str)) + 1)
           ELSE SubSeq(paths, 1, ArrayIndexOf(paths, rootPath.str) + 1)
      ELSE paths

-----------------------------------------------------------------------------
(* Inputs of the path functions *)

FolderNames == {<<"a">>, <<"b">>}

RECURSIVE SeqsUpTo(_, _)
SeqsUpTo(S, n) ==
  IF n = 0 THEN {<<>>}
  ELSE LET shorter == SeqsUpTo(S, n - 1)
       IN  shorter \cup {Append(q, x) : q \in {r \in shorter : Len(r) = n - 1}, x \in S}

\* The path of the first k folders below the site root, in implicit form
RECURSIVE PathOf(_, _)
PathOf(folders, k) ==
  IF k = 0 THEN SiteWebsite ELSE PathOf(folders, k - 1) \o <<"/">> \o folders[k]

InForm(path, form) == IF form = "explicit" THEN path \o IndexXml ELSE path

\* stored[k] says how the index holds level k of the path (level 0 is the root):
\* under its implicit form, under its explicit form, or not at all.  Each item's
\* path field is the key it is stored under.
IndexOfLevels(folders, stored) ==
  LET levels == {k \in 0..Len(folders) : stored[k] # "absent"}
      key(k) == InForm(PathOf(folders, k), stored[k])
  IN  [p \in {key(k) : k \in levels} |-> [path |-> p]]

\* itemsFromPath(path, root, items) for a path at or below the site root.  folders,
\* stored, pathForm and rootForm describe how the arguments were built.
ItemsFromPathCalls ==
  UNION { { [ fn |-> "itemsFromPath",
              path |-> InForm(PathOf(folders, Len(folders)), pathForm),
              root |-> InForm(SiteWebsite, rootForm),
              items |-> IndexOfLevels(folders, stored),
              folders |-> folders, stored |-> stored,
              pathForm |-> pathForm, rootForm |-> rootForm ] :
            stored \in [0..Len(folders) -> {"absent", "implicit", "explicit"}],
            pathForm \in {"implicit", "explicit"},
            rootForm \in {"implicit", "explicit"} } :
          folders \in SeqsUpTo(FolderNames, MaxDepth) }

\* The strings made of at most n of the tokens
RECURSIVE TokenStrings(_, _)
TokenStrings(tokens, n) ==
  IF n = 0 THEN {<<>>}
  ELSE LET shorter == TokenStrings(tokens, n - 1)
       IN  shorter \cup {q \o t : q \in shorter, t \in tokens}

PathTokens == {<<"/", "a">>, IndexXml}

\* withoutIndex and withIndex, and their compositions, on a path string
IndexFormCalls ==
  {[fn |-> "indexForms", path |-> p] : p \in TokenStrings(PathTokens, MaxTokens)}

UrlTokens ==
  {<<"/", "a">>, <<"/">>, DotHtml, DotXml, <<"?", "q">>, <<"#", "f">>, <<";", "p">>}

GetPathFromPreviewURLCalls ==
  {[fn |-> "getPathFromPreviewURL", previewURL |-> u] : u \in TokenStrings(UrlTokens, MaxTokens)}

\* '/' + the first k segments joined by '/'
PrefixPath(segments, k) == <<"/">> \o Join(SubSeq(segments, 1, k), <<"/">>)

\* getIndividualPaths(path, rootPath) for a path of folders, in either form, with
\* or without a leading and a trailing '/'.  level 0: no rootPath is given; level
\* j >= 1: rootPath is the path of the first j folders, in form rootForm.
GetIndividualPathsCalls ==
  UNION { { [ fn |-> "getIndividualPaths",
              path |-> (IF lead THEN <<"/">> ELSE <<>>)
                         \o Join(IF pathForm = "explicit"
                                 THEN Append(folders, Tail(IndexXml)) ELSE folders, <<"/">>)
                         \o (IF trail THEN <<"/">> ELSE <<>>),
              rootPath |-> IF level = 0 THEN Undefined
                           ELSE Str(InForm(PrefixPath(folders, level), rootForm)),
              segments |-> IF pathForm = "explicit"
                           THEN Append(folders, Tail(IndexXml)) ELSE folders,
              folders |-> folders, level |-> level,
              pathForm |-> pathForm, rootForm |-> rootForm ] :
            level \in 0..Len(folders),
            pathForm \in {"implicit", "explicit"},
            rootForm \in {"implicit", "explicit"},
            lead \in BOOLEAN, trail \in BOOLEAN } :
          folders \in SeqsUpTo(FolderNames, MaxDepth) \ {<<>>} }

\* getParentsFromPath(path, rootPath) for the path of an item below the site root,
\* in either form
GetParentsFromPathCalls ==
  { [ fn |-> "getParentsFromPath",
      path |-> InForm(PathOf(folders, Len(folders)), pathForm),
      rootPath |-> SiteWebsite,
      folders |-> folders, pathForm |-> pathForm ] :
    folders \in SeqsUpTo(FolderNames, MaxDepth) \ {<<>>},
    pathForm \in {"implicit", "explicit"} }

PathCalls ==
  ItemsFromPathCalls \cup IndexFormCalls \cup GetPathFromPreviewURLCalls
    \cup GetIndividualPathsCalls \cup GetParentsFromPathCalls

-----------------------------------------------------------------------------
NoCall == [fn |-> "none"]
NoArrival == [id |-> 0, ok |-> TRUE, phase |-> "none", result |-> Null, requests |-> 0,
              got |-> 0]
EffectQuery(types) ==
  [ id |-> 1, src |-> "effect",
    query |-> SearchQuery(initialSearchParameters.keywords, initialSearchParameters.offset,
                          initialSearchParameters.limit, types),
    bar |-> "", typed |-> 0, quiet |-> 0 ]

\* The panel after its first render and effects: the content types are either
\* still loading, or already in the store, and then the effect has run onSearch().
Init ==
  /\ mounted = TRUE
  /\ contentTypes \in {Null} \cup {[list |-> l] : l \in ContentTypeLists}
  /\ keyword = ""
  /\ pageNumber = 0
  /\ searchResults = Null
  /\ contentInstanceLookup = << >>
  /\ error = Null
  /\ debounce = Null
  /\ burst = 0
  /\ owed = 0
  /\ lastArrival = NoArrival
  /\ issued = IF contentTypes = Null THEN 0 ELSE 1
  /\ queries = IF contentTypes = Null THEN << >> ELSE 1 :> NewCycle
  /\ lastIssued = IF contentTypes = Null THEN Null ELSE EffectQuery(contentTypes)
  /\ failedAt = 0
  /\ bus = Null
  /\ drag = Null
  /\ call = NoCall
  /\ ret = Null

Next ==
  \/ \E l \in ContentTypeLists : ContentTypesChanged(l)
  \/ \E kw \in Keywords : handleSearchKeyword(kw)
  \/ DebounceFire
  \/ Tick
  \/ \E page \in Pages : onPageChanged(page)
  \/ \E c \in DOMAIN queries, r \in SearchResultValues : SearchResponse(c, r)
  \/ \E c \in DOMAIN queries, e \in ErrorResponses : SearchFail(c, e)
  \/ \E c \in DOMAIN queries : \E i \in DOMAIN queries[c].requests : FetchResolve(c, i)
  \/ \E c \in DOMAIN queries : \E i \in DOMAIN queries[c].requests, e \in ErrorResponses :
       FetchFail(c, i, e)
  \/ Unmount

Spec == Init /\ [][Next]_vars

\* The panel once the user has gone to the second page of results and that page
\* has arrived: the queries so far have all been answered, the last of them with
\* searchResults.  The history variables count from this point on.
PagedInit ==
  /\ mounted = TRUE
  /\ contentTypes \in {Null} \cup {[list |-> l] : l \in ContentTypeLists}
  /\ keyword = ""
  /\ pageNumber = 1
  /\ searchResults \in SearchResultValues
  /\ contentInstanceLookup =
       IF Len(ComponentRequests(searchResults)) > 0
       THEN createLookupTable([i \in 1..Len(ComponentRequests(searchResults)) |->
                                 ContentInstanceOf(ComponentRequests(searchResults)[i])])
       ELSE << >>
  /\ error = Null
  /\ debounce = Null
  /\ burst = 0
  /\ owed = 0
  /\ lastArrival = NoArrival
  /\ issued = 0
  /\ queries = << >>
  /\ lastIssued = Null
  /\ failedAt = 0
  /\ bus = Null
  /\ drag = Null
  /\ call = NoCall
  /\ ret = Null

PagedSpec == PagedInit /\ [][Next]_vars

-----------------------------------------------------------------------------
(* The drag handlers *)

\* useMemo: contentTypes ? createLookupTable(contentTypes, 'id') : null
contentTypesLookup ==
  IF contentTypes = Null THEN Null
  ELSE [id \in {contentTypes.list[i] : i \in 1..Len(contentTypes.list)} |-> [id |-> id]]

\* The items the result list may hand to the drag handlers.  The list component is
\* not part of the panel: the handlers take whatever SearchItem they are called with.
SearchItems ==
  UNION {{r.items[i] : i \in 1..Len(r.items)} : r \in SearchResultValues}

\* A handler call: the messages it published, and whether it threw.
DragCall(handler, item, published, threw) ==
  [handler |-> handler, item |-> item, published |-> published, threw |-> threw]

\* onDragStart(item).  contentInstanceLookup[item.path] is undefined for a path with
\* no instance, and reading instance.craftercms then throws a TypeError; so does
\* indexing contentTypesLookup while it is null.  Nothing is published then.
onDragStart(item) ==
  /\ mounted
  /\ IF item.type = "Component"
     THEN LET instance == Get(contentInstanceLookup, item.path)
          IN  IF instance = Undefined \/ contentTypesLookup = Null
              THEN /\ bus' = bus
                   /\ drag' = DragCall("onDragStart", item, 0, TRUE)
              ELSE /\ bus' = [ type |-> "COMPONENT_INSTANCE_DRAG_STARTED",
                               payload |-> [ instance |-> instance,
                                             contentType |->
                                               Get(contentTypesLookup,
                                                   instance.craftercms.contentTypeId) ] ]
                   /\ drag' = DragCall("onDragStart", item, 1, FALSE)
     ELSE /\ bus' = [type |-> "ASSET_DRAG_STARTED", payload |-> item]
          /\ drag' = DragCall("onDragStart", item, 1, FALSE)
  /\ UNCHANGED <<panelVars, pathVars>>

\* onDragEnd(item): the message has a type and nothing else.
onDragEnd(item) ==
  /\ mounted
  /\ bus' = [type |-> IF item.type = "Component"
                      THEN "COMPONENT_INSTANCE_DRAG_ENDED" ELSE "ASSET_DRAG_ENDED"]
  /\ drag' = DragCall("onDragEnd", item, 1, FALSE)
  /\ UNCHANGED <<panelVars, pathVars>>

\* The panel with its drag handlers
DragNext ==
  \/ Next
  \/ \E item \in SearchItems : onDragStart(item)
  \/ \E item \in SearchItems : onDragEnd(item)

DragSpec == Init /\ [][DragNext]_vars

-----------------------------------------------------------------------------
(* Claims about the search panel *)

Arrives == lastArrival' # lastArrival

NumComponents(result) ==
  Cardinality({i \in DOMAIN result.items : result.items[i].type = "Component"})

\* C1: once the panel is torn down, no cycle that was pending at teardown writes
\* searchResults, contentInstanceLookup or error.
C1_NoWriteAfterTeardown ==
  [][~mounted => UNCHANGED <<searchResults, contentInstanceLookup, error>>]_vars

\* C2: queries in flight at once are neither cancelled nor coalesced (while the
\* panel is mounted a cycle ends only by reaching the subscriber, and every call of
\* onSearch adds one cycle), and searchResults is the result of the cycle whose
\* response reached the subscriber last, whatever the order of issue.
C2_LastArrivalWins ==
  /\ []((lastArrival.id # 0 /\ lastArrival.ok) => searchResults = lastArrival.result)
  /\ []((mounted /\ issued >= 2 /\ DOMAIN queries = {} /\ failedAt = 0)
          => searchResults = lastArrival.result)
  /\ [][/\ mounted' => \A c \in DOMAIN queries : c \in DOMAIN queries' \/ lastArrival'.id = c
        /\ issued' # issued => DOMAIN queries' = DOMAIN queries \cup {issued + 1}]_vars

C2_Witness ==
  /\ mounted /\ issued = 2 /\ DOMAIN queries = {} /\ failedAt = 0
  /\ lastArrival.id = 1
  /\ searchResults = lastArrival.result

\* C3: a search response starts one getContentInstance request per item of type
\* 'Component' (none when there is none), and searchResults and
\* contentInstanceLookup are written only once every request has resolved.
C3_RequestsPerComponent ==
  /\ [](\A c \in DOMAIN queries :
          queries[c].phase = "fetch" =>
            /\ Len(queries[c].requests) = NumComponents(queries[c].result)
            /\ Len(queries[c].requests) > 0)
  /\ []((lastArrival.id # 0 /\ lastArrival.ok) =>
          /\ lastArrival.requests = NumComponents(lastArrival.result)
          /\ lastArrival.got = lastArrival.requests)
  /\ [][(searchResults' # searchResults \/ contentInstanceLookup' # contentInstanceLookup)
          => /\ Arrives /\ lastArrival'.ok
             /\ lastArrival'.got = NumComponents(lastArrival'.result)
             /\ searchResults' = lastArrival'.result]_vars

C3_Witness ==
  /\ lastArrival.ok /\ lastArrival.requests = 2 /\ lastArrival.got = 2
  /\ searchResults = lastArrival.result
  /\ DOMAIN contentInstanceLookup = {ComponentA.path, ComponentB.path}

\* C4: when one content-instance request of a cycle fails, the cycle writes
\* neither searchResults nor contentInstanceLookup, and sets error.
C4_NoPartialSuccess ==
  [][(Arrives /\ ~lastArrival'.ok /\ lastArrival'.phase = "fetch")
       => /\ UNCHANGED <<searchResults, contentInstanceLookup>>
          /\ error' # Null]_vars

C4_Witness ==
  /\ lastArrival.id # 0 /\ ~lastArrival.ok /\ lastArrival.phase = "fetch"
  /\ lastArrival.got = 1 /\ lastArrival.requests = 2
  /\ error # Null /\ searchResults = Null

\* C5: keywords entered less than DebounceTime apart issue one query, carrying the
\* last keyword entered: the keyword path has issued exactly as many queries as the
\* input has had quiet periods of DebounceTime, and each of them was issued after
\* DebounceTime of quiet with the keyword then in the search bar.
C5_OneQueryPerBurst ==
  /\ mounted => owed = (IF DebounceDue THEN 1 ELSE 0)
  /\ (lastIssued # Null /\ lastIssued.src = "keyword") =>
       /\ lastIssued.quiet = 400
       /\ lastIssued.typed >= 1
       /\ lastIssued.query.keywords = lastIssued.bar

C5_Witness ==
  /\ lastIssued # Null /\ lastIssued.src = "keyword"
  /\ lastIssued.typed >= 2
  /\ issued = 1
  /\ lastIssued.query.keywords = keyword

\* C6: no query is issued before the content-type list and its lookup table have
\* been computed.
C6_TypesBeforeSearch ==
  lastIssued # Null => lastIssued.query.types # Null

\* C7: after a query has failed, a query issued later that succeeds leaves the new
\* result in searchResults and the error state unset.
C7_FailedNotAbsorbing ==
  (mounted /\ failedAt > 0 /\ lastArrival.ok /\ lastArrival.id > failedAt)
    => /\ searchResults = lastArrival.result
       /\ error = Null

\* C8: a page change to page n issues a query at once with offset n*10, limit 10
\* and the keyword in the search bar, and leaves a pending debounced keyword and
\* the cycles in flight as they are.
C8_PageChange ==
  /\ []((lastIssued # Null /\ lastIssued.src = "page") =>
          /\ lastIssued.query.offset = pageNumber * 10
          /\ lastIssued.query.limit = 10
          /\ lastIssued.query.keywords = lastIssued.bar)
  /\ [][pageNumber' # pageNumber =>
          /\ issued' = issued + 1
          /\ lastIssued'.src = "page" /\ lastIssued'.id = issued'
          /\ lastIssued'.query.keywords = keyword
          /\ UNCHANGED <<debounce, owed, keyword>>
          /\ \A c \in DOMAIN queries : c \in DOMAIN queries' /\ queries'[c] = queries[c]]_vars

C8_Witness ==
  /\ lastIssued # Null /\ lastIssued.src = "page" /\ lastIssued.id = issued
  /\ pageNumber = 1 /\ lastIssued.query.offset = 10
  /\ debounce # Null /\ lastIssued.query.keywords = debounce.value
  /\ debounce.value # ""

\* C22: while a drag can start, every item of type 'Component' in searchResults
\* has its instance in contentInstanceLookup, under the item's path.
C22_InstancesOfResults ==
  (mounted /\ searchResults # Null) =>
    \A i \in DOMAIN searchResults.items :
      searchResults.items[i].type = "Component" =>
        /\ searchResults.items[i].path \in DOMAIN contentInstanceLookup
        /\ contentInstanceLookup[searchResults.items[i].path].craftercms.path
             = searchResults.items[i].path

C22_Witness ==
  /\ mounted /\ issued = 2 /\ DOMAIN queries = {}
  /\ lastArrival.id = 1 /\ lastArrival.ok /\ lastArrival.requests = 2
  /\ searchResults = lastArrival.result
  /\ DOMAIN contentInstanceLookup = {ComponentA.path, ComponentB.path}

\* C23: every query is issued with offset pageNumber * 10: the offset of the last
\* query issued is 10 times the page number the pagination shows.
C23_OffsetIsPage ==
  lastIssued # Null => lastIssued.query.offset = pageNumber * 10

-----------------------------------------------------------------------------
(* Claims about the drag handlers *)

Dragged(handler) == drag' # drag /\ drag'.handler = handler

\* C12: a drag-start publishes exactly one message: for a 'Component' item,
\* COMPONENT_INSTANCE_DRAG_STARTED with the item's instance and the descriptor of
\* its content type, for any other item ASSET_DRAG_STARTED with the item; a
\* drag-end publishes exactly one message, of the ended variant of the item's type.
C12_OneMessagePerDrag ==
  [][/\ Dragged("onDragStart") =>
          /\ drag'.published = 1 /\ ~drag'.threw
          /\ bus' = IF drag'.item.type = "Component"
                    THEN [ type |-> "COMPONENT_INSTANCE_DRAG_STARTED",
                           payload |->
                             [ instance |-> contentInstanceLookup[drag'.item.path],
                               contentType |-> [id |-> "/component/feature"] ] ]
                    ELSE [type |-> "ASSET_DRAG_STARTED", payload |-> drag'.item]
     /\ Dragged("onDragEnd") =>
          /\ drag'.published = 1 /\ ~drag'.threw
          /\ bus'.type = IF drag'.item.type = "Component"
                         THEN "COMPONENT_INSTANCE_DRAG_ENDED" ELSE "ASSET_DRAG_ENDED"]_vars

C14_DragEndPayload ==
  [][Dragged("onDragEnd") =>
       /\ "payload" \in DOMAIN bus'
       /\ bus'.payload = IF drag'.item.type = "Component"
                         THEN [ instance |-> contentInstanceLookup[drag'.item.path],
                                contentType |-> [id |-> "/component/feature"] ]
                         ELSE drag'.item]_vars

-----------------------------------------------------------------------------
(* The path functions, each applied once to arguments drawn from the input sets *)

PathInit ==
  /\ mounted = TRUE
  /\ contentTypes = Null
  /\ keyword = ""
  /\ pageNumber = 0
  /\ searchResults = Null
  /\ contentInstanceLookup = << >>
  /\ error = Null
  /\ debounce = Null
  /\ burst = 0
  /\ owed = 0
  /\ lastArrival = NoArrival
  /\ issued = 0
  /\ queries = << >>
  /\ lastIssued = Null
  /\ failedAt = 0
  /\ bus = Null
  /\ drag = Null
  /\ call \in PathCalls
  /\ ret = Null

\* itemsFromPath on the path, and on the same path with a trailing '/'
CallItemsFromPath ==
  /\ call.fn = "itemsFromPath"
  /\ ret = Null
  /\ ret' = [ value |-> itemsFromPath(call.path, call.root, call.items),
              trailing |-> itemsFromPath(call.path \o <<"/">>, call.root, call.items) ]
  /\ UNCHANGED <<call, panelVars, dragVars>>

CallIndexForms ==
  /\ call.fn = "indexForms"
  /\ ret = Null
  /\ ret' = [ withoutIndex |-> withoutIndex(call.path),
              withIndex |-> withIndex(call.path),
              withoutWithout |-> withoutIndex(withoutIndex(call.path)),
              withWith |-> withIndex(withIndex(call.path)),
              withWithout |-> withIndex(withoutIndex(call.path)),
              withoutWith |-> withoutIndex(withIndex(call.path)) ]
  /\ UNCHANGED <<call, panelVars, dragVars>>

CallGetPathFromPreviewURL ==
  /\ call.fn = "getPathFromPreviewURL"
  /\ ret = Null
  /\ ret' = [value |-> getPathFromPreviewURL(call.previewURL)]
  /\ UNCHANGED <<call, panelVars, dragVars>>

CallGetIndividualPaths ==
  /\ call.fn = "getIndividualPaths"
  /\ ret = Null
  /\ ret' = [value |-> getIndividualPaths(call.path, call.rootPath)]
  /\ UNCHANGED <<call, panelVars, dragVars>>

CallGetParentsFromPath ==
  /\ call.fn = "getParentsFromPath"
  /\ ret = Null
  /\ ret' = [value |-> getParentsFromPath(call.path, call.rootPath)]
  /\ UNCHANGED <<call, panelVars, dragVars>>

PathNext ==
  \/ CallItemsFromPath
  \/ CallGetParentsFromPath
  \/ CallIndexForms
  \/ CallGetPathFromPreviewURL
  \/ CallGetIndividualPaths

PathSpec == PathInit /\ [][PathNext]_vars

-----------------------------------------------------------------------------
(* Claims about itemsFromPath *)

Returned(fn) == call.fn = fn /\ ret # Null

\* The item the index holds for level k of the call's path, under either form
StoredItem(k) ==
  IF call.stored[k] = "absent" THEN Undefined
  ELSE [path |-> InForm(PathOf(call.folders, k), call.stored[k])]

\* C9: itemsFromPath with the target equal to the root, in either form, returns the
\* one-element chain holding the root item, whichever form the index stores the
\* root under and whichever form the root argument is given in.
C9_RootChain ==
  (Returned("itemsFromPath") /\ Len(call.folders) = 0 /\ call.stored[0] # "absent")
    => ret.value = <<StoredItem(0)>>

\* C10: for a target n folders below the root, itemsFromPath returns n+1 slots: the
\* root item, then the item of each successive prefix, found under either form, and
\* an absent slot exactly where the index lacks the prefix under both forms.
C10_Chain ==
  (Returned("itemsFromPath") /\ Len(call.folders) >= 1 /\ call.stored[0] # "absent")
    => /\ Len(ret.value) = Len(call.folders) + 1
       /\ \A k \in 0..Len(call.folders) : ret.value[k + 1] = StoredItem(k)

\* C11: a chain with no absent slot is non-empty, has the root item first, and each
\* item's path is getParentPath of the path of the item after it.
C11_ParentLinks ==
  (Returned("itemsFromPath") /\ \A k \in DOMAIN ret.value : ret.value[k] # Undefined)
    => /\ Len(ret.value) >= 1
       /\ ret.value[1] = StoredItem(0)
       /\ \A k \in 1..(Len(ret.value) - 1) :
            ret.value[k].path = getParentPath(ret.value[k + 1].path)

-----------------------------------------------------------------------------
(* Claims about withoutIndex and withIndex *)

EndsWith(s, suffix) ==
  Len(s) >= Len(suffix) /\ SubSeq(s, Len(s) - Len(suffix) + 1, Len(s)) = suffix

\* C15: withoutIndex and withIndex are idempotent, withIndex(withoutIndex(p)) is
\* withIndex(p), and withoutIndex changes p only by removing a trailing '/index.xml'.
C15_IndexIdempotent ==
  Returned("indexForms") =>
    /\ ret.withoutWithout = ret.withoutIndex
    /\ ret.withWith = ret.withIndex
    /\ ret.withWithout = ret.withIndex
    /\ ret.withoutIndex # call.path =>
         /\ EndsWith(call.path, IndexXml)
         /\ ret.withoutIndex = SubSeq(call.path, 1, Len(call.path) - Len(IndexXml))

\* p is a canonical path in explicit form: '/index.xml' ends it and occurs nowhere else
ExplicitForm(p) ==
  EndsWith(p, IndexXml) /\ IndexOf(p, IndexXml) = Len(p) - Len(IndexXml) + 1

\* C16, as stated: for a canonical path p in explicit form,
\* withoutIndex(withIndex(p)) is withIndex(p).
C16_RoundTripExplicit ==
  (Returned("indexForms") /\ ExplicitForm(call.path))
    => ret.withoutWith = ret.withIndex

\* C16, amended: for a canonical path p in explicit form, withIndex(p) is p and
\* withoutIndex(withIndex(p)) is withoutIndex(p): p less its '/index.xml', the
\* implicit form, which differs from withIndex(p).
C16_RoundTripImplicit ==
  (Returned("indexForms") /\ ExplicitForm(call.path))
    => /\ ret.withIndex = call.path
       /\ ret.withoutWith = ret.withoutIndex
       /\ ret.withoutWith = SubSeq(call.path, 1, Len(call.path) - Len(IndexXml))
       /\ ret.withoutWith # ret.withIndex

C16_Witness ==
  /\ Returned("indexForms")
  /\ call.path = <<"/", "a">> \o IndexXml
  /\ ret.withIndex = call.path
  /\ ret.withoutWith = <<"/", "a">>

-----------------------------------------------------------------------------
(* Claims about getPathFromPreviewURL *)

\* C17: the path returned starts with '/site/website' and holds none of the
\* characters '?', '#' and ';'.
C17_Stripped ==
  Returned("getPathFromPreviewURL") =>
    /\ StartsAt(ret.value, 1, SiteWebsite)
    /\ \A i \in 1..Len(ret.value) : ret.value[i] \notin {"?", "#", ";"}

\* C18: the path returned ends in '.xml'; a URL with no '.html', '.xml', '?', '#'
\* or ';' in it comes back with '/' appended if absent, and then 'index.xml'.
C18_EndsInXml ==
  Returned("getPathFromPreviewURL") =>
    /\ EndsWith(ret.value, DotXml)
    /\ (\A i \in 1..Len(call.previewURL) : call.previewURL[i] \notin {".", "?", "#", ";"})
         => ret.value = SiteWebsite \o call.previewURL
                          \o (IF EndsWith(call.previewURL, <<"/">>) THEN <<>> ELSE <<"/">>)
                          \o Tail(IndexXml)

-----------------------------------------------------------------------------
(* Claims about getIndividualPaths *)

\* The paths of a sequence of segments, most specific first
AllPaths(segments) ==
  [i \in 1..Len(segments) |-> PrefixPath(segments, Len(segments) - i + 1)]

\* C19: with a rootPath that is the path or an ancestor of it, in either form, the
\* result is the sequence of prefixes cut after the element that matches the root:
\* it is not empty and its last element is the root in one of its two forms.
C19_TruncatedAtRoot ==
  (Returned("getIndividualPaths") /\ call.level >= 1)
    => /\ Len(ret.value) >= 1
       /\ ret.value[Len(ret.value)] \in
            {PrefixPath(call.folders, call.level), PrefixPath(call.folders, call.level) \o IndexXml}
       /\ \A i \in 1..Len(ret.value) : ret.value[i] = AllPaths(call.segments)[i]

\* C20: without rootPath, a path of k segments gives k paths, most specific first:
\* the full path, then each time the previous one less its last segment, down to
\* '/' and the first segment.
C20_PrefixChain ==
  (Returned("getIndividualPaths") /\ call.level = 0)
    => /\ Len(ret.value) = Len(call.segments)
       /\ ret.value = AllPaths(call.segments)
       /\ ret.value[Len(ret.value)] = <<"/">> \o call.segments[1]

C20_Witness ==
  /\ Returned("getIndividualPaths") /\ call.level = 0
  /\ call.path = <<"a", "/", "b", "/", "a", "/">>
  /\ ret.value = << <<"/", "a", "/", "b", "/", "a">>, <<"/", "a", "/", "b">>, <<"/", "a">> >>

-----------------------------------------------------------------------------
(* Claims about getParentsFromPath *)

\* C21: for an item n folders below rootPath, getParentsFromPath returns rootPath,
\* then, from the root down, the levels strictly between the root and the item's
\* parent (levels 1 to n-2); the item's own path is not in it, and no level twice.
C21_ParentsBelowRoot ==
  Returned("getParentsFromPath") =>
    /\ ret.value = <<call.rootPath>> \o
                     [k \in 1..(Len(call.folders) - 2) |-> PathOf(call.folders, k)]
    /\ \A i \in 1..Len(ret.value) : ret.value[i] # PathOf(call.folders, Len(call.folders))
    /\ \A i, j \in 1..Len(ret.value) : ret.value[i] = ret.value[j] => i = j

-----------------------------------------------------------------------------
(* Claims about a trailing separator *)

====
